---- MODULE Spec2Model ----
(***************************************************************************)
(* A model of pydatatypes: the recursive type converter of                 *)
(* pydatatypes/typing.py, the JSON bridge of pydatatypes/json.py and the   *)
(* record (dataclass) JSON glue of pydatatypes/dataclass.py.               *)
(*                                                                         *)
(* The handlers of typing.py read `type_.__origin__ or type_` and test     *)
(* `type_.__args__ is None`: they are written for the typing module of     *)
(* Python 3.5/3.6, where an unparameterized generic has __origin__ and     *)
(* __args__ equal to None.  The model follows that reading: a type object  *)
(* with an empty argument list is the unparameterized generic.             *)
(***************************************************************************)
EXTENDS Integers, Sequences, FiniteSets

(***************************************************************************)
(* Bounds of the model.                                                    *)
(***************************************************************************)
\* longest list / tuple / mapping among the values
MaxLen == 2
\* calls made on the module-level converters in one behaviour
MaxCalls == 1

(***************************************************************************)
(* Python objects.  Every object is a record of the same shape:            *)
(*   kind   the runtime class of the object ("type" for a type object)     *)
(*   n      the integer (part) of a number; the class id of a record       *)
(*   f      TRUE for a float with fractional part one half                 *)
(*   s      the characters of a str; <<name>> for a type object; <<"~">>  *)
(*          for the float nearest to n + 1/3                               *)
(*   items  the elements of a container (entries of a mapping, field       *)
(*          values of a record, type arguments of a type object)           *)
(***************************************************************************)
Obj(kind, n, f, s, items) ==
    [kind |-> kind, n |-> n, f |-> f, s |-> s, items |-> items]

IntV(n) == Obj("int", n, FALSE, <<>>, <<>>)
BoolV(b) == Obj("bool", IF b THEN 1 ELSE 0, FALSE, <<>>, <<>>)
\* the float n (half = FALSE) or n + 0.5 (half = TRUE)
FloatV(n, half) == Obj("float", n, half, <<>>, <<>>)
\* a foreign integral number (numpy.int8 ...): numbers.Integral, not int
NpInt(n) == Obj("npint", n, FALSE, <<>>, <<>>)
\* a foreign real number (numpy.float32): numbers.Real, not float
NpFloat(n, half) == Obj("npfloat", n, half, <<>>, <<>>)
\* the rational n + 1/3 (fractions.Fraction): numbers.Real, not float, and
\* no float has its value
Fraction(n) == Obj("fraction", n, FALSE, <<>>, <<>>)
StrV(chars) == Obj("str", 0, FALSE, chars, <<>>)
NoneV == Obj("none", 0, FALSE, <<>>, <<>>)
\* an object of no class the converter knows (slice, Exception, function)
Other == Obj("other", 0, FALSE, <<>>, <<>>)
ListV(items) == Obj("list", 0, FALSE, <<>>, items)
TupleV(items) == Obj("tuple", 0, FALSE, <<>>, items)
\* range(len(items)): a sequence that is neither list nor tuple
RangeV(items) == Obj("range", 0, FALSE, <<>>, items)
SetV(items) == Obj("set", 0, FALSE, <<>>, items)
\* one key/value pair of a mapping, in iteration order
Entry(k, v) == Obj("entry", 0, FALSE, <<>>, <<k, v>>)
DictV(entries) == Obj("dict", 0, FALSE, <<>>, entries)
\* a Mapping that is not a dict (types.MappingProxyType, ChainMap)
MappingProxy(entries) == Obj("mapping", 0, FALSE, <<>>, entries)
\* an instance of the record class cls holding vals, in field order
Instance(cls, vals) == Obj("record", cls, FALSE, <<>>, vals)

KeyOf(e) == e.items[1]
ValOf(e) == e.items[2]

(***************************************************************************)
(* Type objects.  Ty(name, <<>>) is a plain class or an unparameterized    *)
(* generic (__args__ is None); Ty(name, args) is name[args].               *)
(***************************************************************************)
Ty(name, args) == Obj("type", 0, FALSE, <<name>>, args)
RecordTy(cls) == Obj("type", cls, FALSE, <<"Record">>, <<>>)

IsType(o) == o.kind = "type"
TyName(t) == t.s[1]
TyArgs(t) == t.items

int == Ty("int", <<>>)
float == Ty("float", <<>>)
bool == Ty("bool", <<>>)
str == Ty("str", <<>>)
NoneType == Ty("NoneType", <<>>)
Integral == Ty("Integral", <<>>)
Real == Ty("Real", <<>>)
Any == Ty("Any", <<>>)
Union(branches) == Ty("Union", branches)
list == Ty("list", <<>>)
dict == Ty("dict", <<>>)
tuple == Ty("tuple", <<>>)
set == Ty("set", <<>>)
List(args) == Ty("List", args)
Sequence(args) == Ty("Sequence", args)
Dict(args) == Ty("Dict", args)
Mapping(args) == Ty("Mapping", args)
Set(args) == Ty("Set", args)
Tuple(args) == Ty("Tuple", args)
\* typing.DefaultDict: a generic mapping that is no superclass of dict
DefaultDict(args) == Ty("DefaultDict", args)
\* the ... of Tuple[int, ...]
Ellipsis == Ty("Ellipsis", <<>>)

(***************************************************************************)
(* Python built-ins used by the code.                                      *)
(***************************************************************************)
Hashable(o) == o.kind \notin {"list", "dict", "set", "mapping"}

IsNumber(o) == o.kind \in {"int", "bool", "float", "npint", "npfloat", "fraction"}

\* the part of a number beyond n and the half: a third, exact in a
\* Fraction and rounded in the float made of it
Third(o) ==
    IF o.kind = "fraction" THEN "1/3" ELSE IF o.s = <<"~">> THEN "float(1/3)" ELSE "0"

RECURSIVE PyEq(_, _)
RECURSIVE SeqEq(_, _)
RECURSIVE EntriesIn(_, _)

\* a[i] == b[i] for every index
SeqEq(a, b) ==
    IF Len(a) # Len(b) THEN FALSE
    ELSE IF a = <<>> THEN TRUE
    ELSE PyEq(Head(a), Head(b)) /\ SeqEq(Tail(a), Tail(b))

\* every entry of a has an equal key with an equal value in b
EntriesIn(a, b) ==
    IF a = <<>> THEN TRUE
    ELSE /\ \E j \in 1..Len(b) :
              PyEq(KeyOf(Head(a)), KeyOf(b[j])) /\ PyEq(ValOf(Head(a)), ValOf(b[j]))
         /\ EntriesIn(Tail(a), b)

\* the == of Python: numbers compare by value across classes (1 == 1.0 ==
\* True), a list never equals a tuple, mappings compare as sets of items
PyEq(a, b) ==
    IF IsNumber(a) /\ IsNumber(b) THEN a.n = b.n /\ a.f = b.f /\ Third(a) = Third(b)
    ELSE IF a.kind \in {"dict", "mapping"} /\ b.kind \in {"dict", "mapping"}
        THEN Len(a.items) = Len(b.items) /\ EntriesIn(a.items, b.items)
    ELSE IF a.kind # b.kind THEN FALSE
    ELSE IF a.kind \in {"list", "tuple", "range", "entry"} THEN SeqEq(a.items, b.items)
    ELSE IF a.kind = "record" THEN a.n = b.n /\ SeqEq(a.items, b.items)
    ELSE IF a.kind = "set"
        THEN /\ Len(a.items) = Len(b.items)
             /\ \A i \in 1..Len(a.items) :
                  \E j \in 1..Len(b.items) : PyEq(a.items[i], b.items[j])
    ELSE a = b

\* the builtin isinstance(value, cls) for a plain class or an
\* unparameterized generic named cls
builtin_isinstance(value, cls) ==
    CASE cls = "int" -> value.kind \in {"int", "bool"}
      [] cls = "bool" -> value.kind = "bool"
      [] cls = "float" -> value.kind = "float"
      [] cls = "str" -> value.kind = "str"
      [] cls = "NoneType" -> value.kind = "none"
      [] cls = "Integral" -> value.kind \in {"int", "bool", "npint"}
      [] cls = "Real" -> IsNumber(value)
      [] cls \in {"list", "List"} -> value.kind = "list"
      [] cls = "Sequence" -> value.kind \in {"list", "tuple", "range", "str"}
      [] cls \in {"dict", "Dict"} -> value.kind = "dict"
      [] cls = "Mapping" -> value.kind \in {"dict", "mapping"}
      [] cls \in {"set", "Set"} -> value.kind = "set"
      [] cls \in {"tuple", "Tuple"} -> value.kind = "tuple"
      [] OTHER -> FALSE

\* isinstance(value, t) for a type object t that accepts class checks
isinstance_class(value, t) ==
    IF TyName(t) = "Record" THEN value.kind = "record" /\ value.n = t.n
    ELSE builtin_isinstance(value, TyName(t))

\* int(value) of a number: truncation towards zero
int_of(value) == IntV(IF value.f /\ value.n < 0 THEN value.n + 1 ELSE value.n)

\* float(value) of a number: the nearest float
float_of(value) ==
    Obj("float", value.n, value.f, IF value.kind = "fraction" THEN <<"~">> ELSE value.s, <<>>)


(***************************************************************************)
(* Outcome of a call.  A call returns a value (tag "ok"; b is the boolean  *)
(* of an isinstance, val the value of a convert) or raises (tag "err":     *)
(* err is the exception class, ev / et / path the value, type and path     *)
(* attributes of a TypeConversionError).  st is the state of the two       *)
(* module-level converters after the call: handlers resolved before an     *)
(* exception stay cached.  new tells the identity of a returned object:    *)
(* FALSE when val is the very object the call was given as its value, TRUE *)
(* when val is an object the call allocated.                               *)
(***************************************************************************)
Ret(b, val, st) ==
    [tag |-> "ok", b |-> b, val |-> val, new |-> FALSE, err |-> "", ev |-> NoneV,
     et |-> NoneV, path |-> <<>>, st |-> st]

\* return of an object made by the call: dict(), list(), cls(...)
RetNew(val, st) == [Ret(FALSE, val, st) EXCEPT !.new = TRUE]

Raise(err, ev, et, path, st) ==
    [tag |-> "err", b |-> FALSE, val |-> NoneV, new |-> FALSE, err |-> err, ev |-> ev,
     et |-> et, path |-> path, st |-> st]

\* an exception that is not a TypeConversionError carries no attributes
RaiseOther(err, st) == Raise(err, NoneV, NoneV, <<>>, st)

Raised(r) == r.tag = "err"

\* state of a freshly constructed converter pair: c = "default" is
\* typing.default_converter, c = "json" the JsonTypeConverter of
\* json.default_json_converter
NoCache == [t \in {} |-> ""]
\* _handler_instances = dict(): for each handler class that has one, the
\* number of instances of it the converter has created
NoInstances == [h \in {} |-> 0]
FreshState ==
    [cache |-> [c \in {"default", "json"} |-> NoCache],
     inst |-> [c \in {"default", "json"} |-> NoInstances]]

(***************************************************************************)
(* typing.py: classification of type objects (Python 3.6 typing).          *)
(***************************************************************************)
\* isinstance(t, type): typing.Any and unions are not classes
IsClass(t) == IsType(t) /\ TyName(t) \notin {"Any", "Union"}

is_valid_annotation(x) == IsType(x)

is_union_type(type_) == IsType(type_) /\ TyName(type_) = "Union"

\* typing.Generic is in the MRO: the generics of typing except Tuple
is_generic_type(type_) ==
    /\ IsType(type_)
    /\ TyName(type_) \in {"List", "Sequence", "Dict", "Mapping", "Set", "DefaultDict"}

\* the class hierarchy behind issubclass, by class name
Superclasses(name) ==
    CASE name = "bool" -> {"bool", "int", "Integral", "Real"}
      [] name = "int" -> {"int", "Integral", "Real"}
      [] name = "Integral" -> {"Integral", "Real"}
      [] name = "float" -> {"float", "Real"}
      [] name = "Real" -> {"Real"}
      [] name \in {"list", "List"} -> {"list", "List", "Sequence", "Collection"}
      [] name = "Sequence" -> {"Sequence", "Collection"}
      [] name \in {"tuple", "Tuple"} -> {"tuple", "Tuple", "Sequence", "Collection"}
      [] name = "str" -> {"str", "Sequence", "Collection"}
      [] name \in {"dict", "Dict"} -> {"dict", "Dict", "Mapping", "Collection"}
      [] name = "Mapping" -> {"Mapping", "Collection"}
      [] name = "DefaultDict" -> {"DefaultDict", "dict", "Dict", "Mapping", "Collection"}
      [] name \in {"set", "Set"} -> {"set", "Set", "Collection"}
      [] OTHER -> {name}

\* issubclass_(t1, t2) with t2 named: False when t1 is not a class
issubclass_(t1, name2) == IsClass(t1) /\ name2 \in Superclasses(TyName(t1))

\* sized, iterable and container
is_collection_type(type_) == issubclass_(type_, "Collection")

\* type_.__origin__ or type_
Origin(type_) == Ty(TyName(type_), <<>>)

\* type_.__args__ is not None
Parameterized(type_) == TyArgs(type_) # <<>>

TrivialTypeHandler == "_TrivialTypeHandler"
IntTypeHandler == "_IntTypeHandler"
FloatTypeHandler == "_FloatTypeHandler"
AnyTypeHandler == "_AnyTypeHandler"
UnionTypeHandler == "_UnionTypeHandler"
MappingTypeHandler == "_MappingTypeHandler"
DictTypeHandler == "_DictTypeHandler"
CollectionTypeHandler == "_CollectionTypeHandler"
ListTypeHandler == "_ListTypeHandler"
\* _find_handler returned None
NoHandler == "None"

find_mapping_handler(type_) ==
    IF TyName(Origin(type_)) \in Superclasses("dict") THEN DictTypeHandler
    ELSE IF Parameterized(type_) THEN MappingTypeHandler
    ELSE NoHandler

\* a sequence lookup that knows the list handler for parameterized types only
find_sequence_handler_parameterized_only(type_) ==
    IF TyName(Origin(type_)) \in Superclasses("list") /\ Parameterized(type_)
        THEN ListTypeHandler
    ELSE IF Parameterized(type_) THEN CollectionTypeHandler
    ELSE NoHandler

\* _find_sequence_handler
find_sequence_handler(type_) ==
    IF TyName(Origin(type_)) \in Superclasses("list") THEN ListTypeHandler
    ELSE IF Parameterized(type_) THEN CollectionTypeHandler
    ELSE NoHandler

find_collection_handler(type_) ==
    IF Parameterized(type_) THEN CollectionTypeHandler ELSE NoHandler

\* is_structured_tuple_type: Tuple[int, str], not Tuple or Tuple[int, ...]
is_structured_tuple_type(type_) ==
    /\ issubclass_(type_, "Tuple")
    /\ Parameterized(type_)
    /\ TyArgs(type_)[Len(TyArgs(type_))] # Ellipsis

\* _find_tuple_handler
find_tuple_handler(type_) ==
    IF is_structured_tuple_type(Origin(type_)) THEN "NotImplementedError"
    ELSE IF issubclass_(Origin(type_), "Tuple") /\ Parameterized(type_)
        THEN "NotImplementedError"
    ELSE NoHandler

find_generic_handler(type_) ==
    IF issubclass_(Origin(type_), "Tuple") THEN find_tuple_handler(type_)
    ELSE IF issubclass_(Origin(type_), "Mapping") THEN find_mapping_handler(type_)
    ELSE IF issubclass_(Origin(type_), "Sequence") THEN find_sequence_handler(type_)
    ELSE IF is_collection_type(Origin(type_)) THEN find_collection_handler(type_)
    ELSE NoHandler

\* a lookup that takes bool for the integral class it is a subclass of
find_handler_bool_integral(type_) ==
    IF ~is_valid_annotation(type_) THEN "TypeError"
    ELSE IF type_ = Any THEN AnyTypeHandler
    ELSE IF is_union_type(type_) THEN UnionTypeHandler
    ELSE IF is_generic_type(type_) THEN find_generic_handler(type_)
    ELSE IF issubclass_(type_, "Integral") THEN IntTypeHandler
    ELSE IF issubclass_(type_, "Real") THEN FloatTypeHandler
    ELSE NoHandler

\* _find_handler: the handler class for type_, NoHandler for the default,
\* "TypeError" when type_ is no valid annotation, "NotImplementedError"
\* when _find_tuple_handler raises
find_handler(type_) ==
    IF ~is_valid_annotation(type_) THEN "TypeError"
    ELSE IF type_ = Any THEN AnyTypeHandler
    ELSE IF is_union_type(type_) THEN UnionTypeHandler
    ELSE IF is_generic_type(type_) THEN find_generic_handler(type_)
    ELSE IF ~issubclass_(type_, "bool") /\ issubclass_(type_, "Integral") THEN IntTypeHandler
    ELSE IF ~issubclass_(type_, "bool") /\ issubclass_(type_, "Real") THEN FloatTypeHandler
    ELSE NoHandler

\* weakref.ref(type_) succeeds: a class; not typing.Any, a union or a value
WeakReferenceable(type_) == IsClass(type_)

\* instance = handler_cls(self); self._handler_instances[handler_cls] = instance
Created(inst, handler_cls) ==
    [h \in DOMAIN inst \cup {handler_cls} |->
        IF h # handler_cls THEN inst[h]
        ELSE IF h \in DOMAIN inst THEN inst[h] + 1
        ELSE 1]

\* a lookup that creates an instance at every call
get_handler_instance_always_new(c, st, handler_cls) ==
    [st EXCEPT !.inst[c] = Created(@, handler_cls)]

\* _get_handler_instance: the instance of handler_cls is created on first
\* use and recycled afterwards
get_handler_instance(c, st, handler_cls) ==
    IF handler_cls \in DOMAIN st.inst[c] THEN st
    ELSE [st EXCEPT !.inst[c] = Created(@, handler_cls)]

CachePut(cache, type_, h) ==
    [t \in DOMAIN cache \cup {type_} |-> IF t = type_ THEN h ELSE cache[t]]

\* _get_handler: [err, h, st]
get_handler(c, st, type_) ==
    LET can_cache == WeakReferenceable(type_)
        \* the assert and the caching, with the instance of handler in st1
        instantiated(handler, st1) ==
            IF type_ \in {list, dict} THEN [err |-> "AssertionError", h |-> "", st |-> st1]
            ELSE [err |-> "", h |-> handler,
                  st |-> IF can_cache
                            THEN [st1 EXCEPT !.cache[c] = CachePut(@, type_, handler)]
                            ELSE st1]
        default(handler) == instantiated(handler, get_handler_instance(c, st, handler))
        found(handler) ==
            IF handler \in {"TypeError", "NotImplementedError"}
                THEN [err |-> handler, h |-> "", st |-> st]
            ELSE IF handler = NoHandler THEN default(TrivialTypeHandler)
            ELSE default(handler)
    IN  IF can_cache /\ type_ \in DOMAIN st.cache[c]
            THEN [err |-> "", h |-> st.cache[c][type_], st |-> st]
        ELSE found(find_handler(type_))

\* _resolve_alias: the lookup hashes type_
type_aliases(type_) ==
    CASE type_ = list -> List(<<>>)
      [] type_ = dict -> Dict(<<>>)
      [] type_ = tuple -> Tuple(<<>>)
      [] type_ = set -> Set(<<>>)
      [] OTHER -> type_


(***************************************************************************)
(* Record classes made by dataclass(json=True).  A field is what field()   *)
(* hands to attr.attrib: name, type, default (has_default FALSE is         *)
(* attr.NOTHING) and the metadata optional / json.                         *)
(***************************************************************************)
Field(name, type, has_default, default, optional, json) ==
    [name |-> StrV(<<name>>), type |-> type,
     \* optional and default is NOTHING: the default is set to None
     has_default |-> has_default \/ optional,
     default |-> IF has_default THEN default ELSE NoneV,
     optional |-> optional, json |-> json]

\* class 1: x = field(int); y = field(str)
\* class 2: x = field(int); y = field(int, optional=True, json=False)
\* class 3: x = field(int); y = field(int, default=42)
Classes == {1, 2, 3}
fields(cls) ==
    IF cls = 1
        THEN << Field("x", int, FALSE, NoneV, FALSE, TRUE),
                Field("y", str, FALSE, NoneV, FALSE, TRUE) >>
    ELSE IF cls = 2
        THEN << Field("x", int, FALSE, NoneV, FALSE, TRUE),
                Field("y", int, FALSE, NoneV, TRUE, FALSE) >>
        ELSE << Field("x", int, FALSE, NoneV, FALSE, TRUE),
                Field("y", int, TRUE, IntV(42), FALSE, TRUE) >>

\* issubclass(type_, JsonConstructible): registered by dataclass(json=True)
IsJsonConstructible(type_) == IsType(type_) /\ TyName(type_) = "Record"

(***************************************************************************)
(* Mapping helpers.                                                        *)
(***************************************************************************)
\* index of the entry of entries whose key equals k, 0 when there is none
KeyIndex(entries, k) ==
    IF \E i \in 1..Len(entries) : PyEq(KeyOf(entries[i]), k)
        THEN CHOOSE i \in 1..Len(entries) : PyEq(KeyOf(entries[i]), k)
        ELSE 0

\* converted[k] = v: an equal key keeps its place and takes the new value
DictSet(entries, k, v) ==
    LET i == KeyIndex(entries, k)
    IN  IF i = 0 THEN Append(entries, Entry(k, v))
        ELSE [entries EXCEPT ![i] = Entry(KeyOf(entries[i]), v)]

\* a pop that takes the oldest entry, whatever entry was asked for
DictRemove_first(entries, i) ==
    [j \in 1..(Len(entries) - 1) |-> entries[j + 1]]

\* data.pop(k) / del: the entries without the entry at index i
DictRemove(entries, i) ==
    [j \in 1..(Len(entries) - 1) |-> IF j < i THEN entries[j] ELSE entries[j + 1]]

(***************************************************************************)
(* typing.py: the handlers and the recursive methods of TypeConverter.     *)
(* c names the converter the handler belongs to (self.converter).          *)
(***************************************************************************)
\* self.converter.<method>(value, type_, path): the call a handler makes
\* back into the converter it belongs to; defined below, after the methods
RECURSIVE converter(_, _, _, _, _, _)
RECURSIVE UnionTypeHandler_isinstance(_, _, _, _, _)
RECURSIVE UnionTypeHandler_convert(_, _, _, _, _, _)
RECURSIVE MappingTypeHandler_isinstance_parameterized(_, _, _, _, _)
RECURSIVE CollectionTypeHandler_isinstance_parameterized(_, _, _, _, _, _)
RECURSIVE DictTypeHandler_convert_parameterized(_, _, _, _, _, _)
RECURSIVE ListTypeHandler_convert_parameterized(_, _, _, _, _, _, _)

\* _TrivialTypeHandler / _IntTypeHandler / _FloatTypeHandler .isinstance:
\* the builtin isinstance, which refuses a parameterized generic
builtin_handler_isinstance(st, value, type_) ==
    IF Parameterized(type_) THEN RaiseOther("TypeError", st)
    ELSE Ret(isinstance_class(value, type_), NoneV, st)

\* _UnionTypeHandler.isinstance over the branches args still to check
UnionTypeHandler_isinstance(c, st, value, args, path) ==
    IF args = <<>> THEN Ret(TRUE, NoneV, st)
    ELSE LET r == converter("_isinstance_recursive", c, st, value, Head(args), path)
         IN  IF Raised(r) THEN r
             ELSE IF ~r.b THEN Ret(FALSE, NoneV, r.st)
             ELSE UnionTypeHandler_isinstance(c, r.st, value, Tail(args), path)

\* _MappingTypeHandler._isinstance_parameterized over the entries items
MappingTypeHandler_isinstance_parameterized(c, st, items, type_, path) ==
    IF items = <<>> THEN Ret(TRUE, NoneV, st)
    ELSE LET k == KeyOf(Head(items))
             v == ValOf(Head(items))
             itempath == Append(path, k)
             rk == converter("_isinstance_recursive", c, st, k, TyArgs(type_)[1], itempath)
             rv == converter("_isinstance_recursive", c, rk.st, v, TyArgs(type_)[2], itempath)
         IN  IF Raised(rk) THEN rk
             ELSE IF ~rk.b THEN Ret(FALSE, NoneV, rk.st)
             ELSE IF Raised(rv) THEN rv
             ELSE IF ~rv.b THEN Ret(FALSE, NoneV, rv.st)
             ELSE MappingTypeHandler_isinstance_parameterized(
                      c, rv.st, Tail(items), type_, path)

\* _MappingTypeHandler.isinstance
MappingTypeHandler_isinstance(c, st, value, type_, path) ==
    IF ~isinstance_class(value, Origin(type_)) THEN Ret(FALSE, NoneV, st)
    ELSE IF Parameterized(type_)
        THEN MappingTypeHandler_isinstance_parameterized(c, st, value.items, type_, path)
    ELSE Ret(TRUE, NoneV, st)

\* _CollectionTypeHandler._isinstance_parameterized(value, type_, path)
\* from element i (counted from 0) on
CollectionTypeHandler_isinstance_parameterized(c, st, value, i, type_, path) ==
    IF i >= Len(value.items) THEN Ret(TRUE, NoneV, st)
    ELSE LET elempath == Append(path, IntV(i))
             r == converter("_isinstance_recursive", c, st, value.items[i + 1], TyArgs(type_)[1], elempath)
         IN  IF Raised(r) THEN r
             ELSE IF ~r.b THEN Ret(FALSE, NoneV, r.st)
             ELSE CollectionTypeHandler_isinstance_parameterized(
                      c, r.st, value, i + 1, type_, path)

\* _CollectionTypeHandler.isinstance.  Line 388 calls the bound method
\* self._isinstance_parameterized(self, value, type_, path): five arguments
\* for a method of four, which Python refuses with a TypeError before the
\* method body runs.
CollectionTypeHandler_isinstance(c, st, value, type_, path) ==
    IF ~isinstance_class(value, Origin(type_)) THEN Ret(FALSE, NoneV, st)
    ELSE IF Parameterized(type_) THEN RaiseOther("TypeError", st)
    ELSE Ret(TRUE, NoneV, st)

handler_isinstance(h, c, st, value, type_, path) ==
    CASE h \in {TrivialTypeHandler, IntTypeHandler, FloatTypeHandler} ->
            builtin_handler_isinstance(st, value, type_)
      [] h = AnyTypeHandler -> Ret(TRUE, NoneV, st)
      [] h = UnionTypeHandler ->
            UnionTypeHandler_isinstance(c, st, value, TyArgs(type_), path)
      [] h \in {MappingTypeHandler, DictTypeHandler} ->
            MappingTypeHandler_isinstance(c, st, value, type_, path)
      [] h \in {CollectionTypeHandler, ListTypeHandler} ->
            CollectionTypeHandler_isinstance(c, st, value, type_, path)

\* _TypeHandler.ensure_isinstance of handler h; returns None
handler_ensure_isinstance(h, c, st, value, type_, path) ==
    LET checked(r) ==
            IF Raised(r) THEN r
            ELSE IF ~r.b THEN Raise("TypeConversionError", value, type_, path, r.st)
            ELSE Ret(FALSE, NoneV, r.st)
    IN  checked(handler_isinstance(h, c, st, value, type_, path))

\* a convert that checks the value and forgets to return it
TypeHandler_convert_no_return(h, c, st, value, type_, path) ==
    LET ensured(r) == IF Raised(r) THEN r ELSE Ret(FALSE, NoneV, r.st)
    IN  ensured(handler_ensure_isinstance(h, c, st, value, type_, path))

\* _TypeHandler.convert: ensure_isinstance, then the value itself
TypeHandler_convert(h, c, st, value, type_, path) ==
    LET ensured(r) == IF Raised(r) THEN r ELSE Ret(FALSE, value, r.st)
    IN  ensured(handler_ensure_isinstance(h, c, st, value, type_, path))

\* an integer conversion that hands the checked value back as it is
IntTypeHandler_convert_passthrough(c, st, value, type_, path) ==
    LET ensured(r) == IF Raised(r) THEN r ELSE Ret(FALSE, value, r.st)
    IN  ensured(handler_ensure_isinstance(IntTypeHandler, c, st, value, Integral, path))

\* _IntTypeHandler.convert
IntTypeHandler_convert(c, st, value, type_, path) ==
    LET ensured(r) ==
            IF Raised(r) THEN r
            ELSE IF value.kind = "int" THEN Ret(FALSE, value, r.st)
            ELSE RetNew(int_of(value), r.st)
    IN  ensured(handler_ensure_isinstance(IntTypeHandler, c, st, value, Integral, path))

\* _FloatTypeHandler.convert
FloatTypeHandler_convert(c, st, value, type_, path) ==
    LET ensured(r) ==
            IF Raised(r) THEN r
            ELSE IF value.kind = "float" THEN Ret(FALSE, value, r.st)
            ELSE RetNew(float_of(value), r.st)
    IN  ensured(handler_ensure_isinstance(FloatTypeHandler, c, st, value, Real, path))

\* _UnionTypeHandler.convert over the branches args still to try
UnionTypeHandler_convert(c, st, value, args, type_, path) ==
    IF args = <<>> THEN Raise("TypeConversionError", value, type_, path, st)
    ELSE LET r == converter("_isinstance_recursive", c, st, value, Head(args), path)
         IN  IF Raised(r) THEN r
             ELSE IF r.b THEN converter("_convert_recursive", c, r.st, value, Head(args), path)
             ELSE UnionTypeHandler_convert(c, r.st, value, Tail(args), type_, path)

\* _DictTypeHandler._convert_parameterized: items are the entries still to
\* convert, converted the dict built so far
DictTypeHandler_convert_parameterized(c, st, items, converted, type_, path) ==
    IF items = <<>> THEN RetNew(DictV(converted), st)
    ELSE LET k == KeyOf(Head(items))
             v == ValOf(Head(items))
             itempath == Append(path, k)
             kc == converter("_convert_recursive", c, st, k, TyArgs(type_)[1], itempath)
             vc == converter("_convert_recursive", c, kc.st, v, TyArgs(type_)[2], itempath)
         IN  IF Raised(kc) THEN kc
             ELSE IF Raised(vc) THEN vc
             ELSE IF ~Hashable(kc.val) THEN RaiseOther("TypeError", vc.st)
             ELSE DictTypeHandler_convert_parameterized(
                      c, vc.st, Tail(items), DictSet(converted, kc.val, vc.val),
                      type_, path)

\* a dict conversion without the fast path: a dict is copied like any
\* other mapping
DictTypeHandler_convert_copying(c, st, value, type_, path) ==
    IF ~builtin_isinstance(value, "Mapping")
        THEN Raise("TypeConversionError", value, Mapping(<<>>), path, st)
    ELSE IF ~Parameterized(type_) THEN RetNew(DictV(value.items), st)
    ELSE DictTypeHandler_convert_parameterized(c, st, value.items, <<>>, type_, path)

\* _DictTypeHandler.convert
DictTypeHandler_convert(c, st, value, type_, path) ==
    IF ~builtin_isinstance(value, "Mapping")
        THEN Raise("TypeConversionError", value, Mapping(<<>>), path, st)
    ELSE IF ~Parameterized(type_)
        THEN IF builtin_isinstance(value, "dict") THEN Ret(FALSE, value, st)
             ELSE RetNew(DictV(value.items), st)
    ELSE DictTypeHandler_convert_parameterized(c, st, value.items, <<>>, type_, path)

\* _ListTypeHandler._convert_parameterized from element i (counted from 0)
ListTypeHandler_convert_parameterized(c, st, value, i, converted, type_, path) ==
    IF i >= Len(value.items) THEN RetNew(ListV(converted), st)
    ELSE LET elempath == Append(path, IntV(i))
             ec == converter("_convert_recursive", c, st, value.items[i + 1], TyArgs(type_)[1], elempath)
         IN  IF Raised(ec) THEN ec
             ELSE ListTypeHandler_convert_parameterized(
                      c, ec.st, value, i + 1, Append(converted, ec.val), type_, path)

\* a list conversion whose element loop starts at the second element
ListTypeHandler_convert_from_second(c, st, value, type_, path) ==
    IF ~builtin_isinstance(value, "Sequence") \/ builtin_isinstance(value, "str")
        THEN Raise("TypeConversionError", value, Sequence(<<>>), path, st)
    ELSE IF ~Parameterized(type_)
        THEN IF builtin_isinstance(value, "list") THEN Ret(FALSE, value, st)
             ELSE RetNew(ListV(value.items), st)
    ELSE ListTypeHandler_convert_parameterized(c, st, value, 1, <<>>, type_, path)

\* _ListTypeHandler.convert
ListTypeHandler_convert(c, st, value, type_, path) ==
    IF ~builtin_isinstance(value, "Sequence") \/ builtin_isinstance(value, "str")
        THEN Raise("TypeConversionError", value, Sequence(<<>>), path, st)
    ELSE IF ~Parameterized(type_)
        THEN IF builtin_isinstance(value, "list") THEN Ret(FALSE, value, st)
             ELSE RetNew(ListV(value.items), st)
    ELSE ListTypeHandler_convert_parameterized(c, st, value, 0, <<>>, type_, path)

handler_convert(h, c, st, value, type_, path) ==
    CASE h = IntTypeHandler -> IntTypeHandler_convert(c, st, value, type_, path)
      [] h = FloatTypeHandler -> FloatTypeHandler_convert(c, st, value, type_, path)
      [] h = UnionTypeHandler ->
            UnionTypeHandler_convert(c, st, value, TyArgs(type_), type_, path)
      [] h = DictTypeHandler -> DictTypeHandler_convert(c, st, value, type_, path)
      [] h = ListTypeHandler -> ListTypeHandler_convert(c, st, value, type_, path)
      [] OTHER -> TypeHandler_convert(h, c, st, value, type_, path)

\* TypeConverter._isinstance_recursive
isinstance_recursive(c, st, value, type_, path) ==
    LET handler(g) ==
            IF g.err # "" THEN RaiseOther(g.err, g.st)
            ELSE handler_isinstance(g.h, c, g.st, value, type_, path)
    IN  handler(get_handler(c, st, type_))

\* TypeConverter._ensure_isinstance_recursive
ensure_isinstance_recursive(c, st, value, type_, path) ==
    LET handler(g) ==
            IF g.err # "" THEN RaiseOther(g.err, g.st)
            ELSE handler_ensure_isinstance(g.h, c, g.st, value, type_, path)
    IN  handler(get_handler(c, st, type_))

\* TypeConverter._convert_recursive
TypeConverter_convert_recursive(c, st, value, type_, path) ==
    LET handler(g) ==
            IF g.err # "" THEN RaiseOther(g.err, g.st)
            ELSE handler_convert(g.h, c, g.st, value, type_, path)
    IN  handler(get_handler(c, st, type_))

\* TypeConverter.isinstance
TypeConverter_isinstance(c, st, value, type_) ==
    IF ~Hashable(type_) THEN RaiseOther("TypeError", st)
    ELSE converter("_isinstance_recursive", c, st, value, type_aliases(type_), <<>>)

\* TypeConverter.ensure_isinstance
TypeConverter_ensure_isinstance(c, st, value, type_) ==
    IF ~Hashable(type_) THEN RaiseOther("TypeError", st)
    ELSE converter("_ensure_isinstance_recursive", c, st, value, type_aliases(type_), <<>>)

\* TypeConverter.convert
TypeConverter_convert(c, st, value, type_) ==
    IF ~Hashable(type_) THEN RaiseOther("TypeError", st)
    ELSE converter("_convert_recursive", c, st, value, type_aliases(type_), <<>>)

\* typing.astype
astype(st, value, type_) == TypeConverter_convert("default", st, value, type_)


(***************************************************************************)
(* int(str) and str(int) of Python, on strings as sequences of characters. *)
(***************************************************************************)
Digits == <<"0", "1", "2", "3", "4", "5", "6", "7", "8", "9">>
IsDigit(ch) == \E d \in 1..10 : Digits[d] = ch
DigitValue(ch) == (CHOOSE d \in 1..10 : Digits[d] = ch) - 1

RECURSIVE DigitsValue(_, _)
\* the number written by the digits chars, after the digits worth acc
DigitsValue(chars, acc) ==
    IF chars = <<>> THEN acc
    ELSE DigitsValue(Tail(chars), 10 * acc + DigitValue(Head(chars)))

AllDigits(chars) == chars # <<>> /\ \A i \in 1..Len(chars) : IsDigit(chars[i])

\* int(s) accepts an optional sign followed by digits
IsIntLiteral(chars) ==
    IF chars # <<>> /\ Head(chars) \in {"-", "+"} THEN AllDigits(Tail(chars))
    ELSE AllDigits(chars)

ParseInt(chars) ==
    IF Head(chars) = "-" THEN 0 - DigitsValue(Tail(chars), 0)
    ELSE IF Head(chars) = "+" THEN DigitsValue(Tail(chars), 0)
    ELSE DigitsValue(chars, 0)

RECURSIVE NatChars(_)
NatChars(n) ==
    IF n < 10 THEN <<Digits[n + 1]>>
    ELSE Append(NatChars(n \div 10), Digits[(n % 10) + 1])

\* str(k) of an int or bool k
str_of(k) ==
    IF k.kind = "bool"
        THEN StrV(IF k.n = 1 THEN <<"T", "r", "u", "e">> ELSE <<"F", "a", "l", "s", "e">>)
    ELSE IF k.n < 0 THEN StrV(<<"-">> \o NatChars(0 - k.n))
    ELSE StrV(NatChars(k.n))

(***************************************************************************)
(* json.py: JsonConverter.to_json.  It reads no converter state: the       *)
(* outcome carries the state st it was called in.                          *)
(***************************************************************************)
RECURSIVE to_json_rec(_, _, _)
RECURSIVE to_json_elements(_, _, _, _, _)
RECURSIVE mapping_to_json(_, _, _, _, _)
RECURSIVE dataclass_to_json_fields(_, _, _, _)

\* the list comprehension of _to_json from element i (counted from 0)
to_json_elements(st, value, i, converted, path) ==
    IF i >= Len(value.items) THEN RetNew(ListV(converted), st)
    ELSE LET r == to_json_rec(st, value.items[i + 1], Append(path, IntV(i)))
         IN  IF Raised(r) THEN r
             ELSE to_json_elements(st, value, i + 1, Append(converted, r.val), path)

\* JsonConverter._mapping_to_json: items are the entries still to convert,
\* keytype is "" while it is None
mapping_to_json(st, items, keytype, converted, path) ==
    IF items = <<>> THEN RetNew(DictV(converted), st)
    ELSE LET k == KeyOf(Head(items))
             v == ValOf(Head(items))
             keytype1 == IF keytype # "" THEN keytype
                         ELSE IF builtin_isinstance(k, "str") THEN "str"
                         ELSE IF builtin_isinstance(k, "int") THEN "int"
                         ELSE ""
             kc == IF keytype1 = "str" THEN k ELSE str_of(k)
             vc == to_json_rec(st, v, Append(path, k))
             key_ok == \/ (keytype1 = "str" /\ builtin_isinstance(k, "str"))
                       \/ (keytype1 = "int" /\ builtin_isinstance(k, "int"))
         IN  IF ~key_ok THEN Raise("JsonTypeError", NoneV, NoneV, path, st)
             ELSE IF Raised(vc) THEN vc
             ELSE mapping_to_json(st, Tail(items), keytype1,
                                  DictSet(converted, kc, vc.val), path)

\* dataclass_to_json from field i on
dataclass_to_json_fields(st, instance, i, data) ==
    IF i > Len(fields(instance.n)) THEN RetNew(DictV(data), st)
    ELSE LET attrib == fields(instance.n)[i]
             \* field_to_json
             r == to_json_rec(st, instance.items[i], <<>>)
         IN  IF ~attrib.json THEN dataclass_to_json_fields(st, instance, i + 1, data)
             ELSE IF Raised(r) THEN r
             ELSE dataclass_to_json_fields(st, instance, i + 1,
                                           DictSet(data, attrib.name, r.val))

dataclass_to_json(st, instance) == dataclass_to_json_fields(st, instance, 1, <<>>)

\* JsonConverter._to_json
to_json_rec(st, value, path) ==
    IF value.kind \in {"int", "bool", "float", "str", "none"} THEN Ret(FALSE, value, st)
    ELSE IF value.kind = "record" THEN dataclass_to_json(st, value)
    ELSE IF builtin_isinstance(value, "Integral") THEN RetNew(int_of(value), st)
    ELSE IF builtin_isinstance(value, "Real") THEN RetNew(float_of(value), st)
    ELSE IF builtin_isinstance(value, "Mapping")
        THEN mapping_to_json(st, value.items, "", <<>>, path)
    ELSE IF value.kind \in {"list", "tuple", "range", "set"}
        THEN to_json_elements(st, value, 0, <<>>, path)
    ELSE Raise("JsonTypeError", value, NoneV, path, st)

\* JsonConverter.to_json
JsonConverter_to_json(st, value) == to_json_rec(st, value, <<>>)

(***************************************************************************)
(* json.py: JsonConverter.from_json.                                       *)
(***************************************************************************)
\* a from_json whose body hands (data, type_) to convert while its callers
\* keep their argument order
JsonConverter_from_json_data_first(st, type_, data) ==
    TypeConverter_convert("json", st, data, type_)

\* JsonConverter.from_json(type_, data): the body hands its two
\* parameters to TypeConverter.convert(value, type_) in the order
\* (type_, data)
JsonConverter_from_json(st, type_, data) == TypeConverter_convert("json", st, type_, data)

(***************************************************************************)
(* dataclass.py.                                                           *)
(***************************************************************************)
\* field_from_json(field, data); the call from_json(data, field.type)
field_from_json(st, field, data) ==
    IF data = NoneV /\ field.optional THEN Ret(FALSE, NoneV, st)
    ELSE JsonConverter_from_json(st, data, field.type)

RECURSIVE attrs_init(_, _, _, _, _)
RECURSIVE from_json_fields(_, _, _, _, _)
RECURSIVE dataclass_from_json(_, _, _, _)
\* an __init__ that leaves an attribute without argument at None
attrs_init_no_default(st, cls, i, values, vals) ==
    IF i > Len(fields(cls)) THEN RetNew(Instance(cls, vals), st)
    ELSE LET attrib == fields(cls)[i]
             j == KeyIndex(values, attrib.name)
             v == IF j # 0 THEN ValOf(values[j]) ELSE NoneV
             converted(r) ==
                 IF Raised(r) THEN r
                 ELSE attrs_init(r.st, cls, i + 1, values, Append(vals, r.val))
         IN  IF attrib.optional /\ v = NoneV THEN converted(Ret(FALSE, NoneV, st))
             ELSE converted(astype(st, v, attrib.type))

\* the __init__ attr.attributes generates for the fields of field(): from
\* field i on, values the keyword arguments, vals the attributes set so far.
\* Each value goes through the converter of its field: astype(value, type),
\* wrapped by attr.converters.optional for an optional field.
attrs_init(st, cls, i, values, vals) ==
    IF i > Len(fields(cls)) THEN RetNew(Instance(cls, vals), st)
    ELSE LET attrib == fields(cls)[i]
             j == KeyIndex(values, attrib.name)
             v == IF j # 0 THEN ValOf(values[j]) ELSE attrib.default
             converted(r) ==
                 IF Raised(r) THEN r
                 ELSE attrs_init(r.st, cls, i + 1, values, Append(vals, r.val))
         IN  IF attrib.optional /\ v = NoneV THEN converted(Ret(FALSE, NoneV, st))
             ELSE converted(astype(st, v, attrib.type))

\* cls(**values): a missing required argument is refused before the body
construct(st, cls, values) ==
    IF \E i \in 1..Len(fields(cls)) :
           ~fields(cls)[i].has_default /\ KeyIndex(values, fields(cls)[i].name) = 0
        THEN RaiseOther("TypeError", st)
    ELSE attrs_init(st, cls, 1, values, <<>>)

\* the loop of dataclass_from_json from field i on: data the entries not
\* yet popped, values the converted field values
from_json_fields(st, cls, i, data, values) ==
    IF i > Len(fields(cls)) THEN [r |-> Ret(FALSE, NoneV, st), data |-> data, values |-> values]
    ELSE LET attrib == fields(cls)[i]
             j == KeyIndex(data, attrib.name)
             converted(r) ==
                 IF Raised(r) THEN [r |-> r, data |-> data, values |-> values]
                 ELSE from_json_fields(r.st, cls, i + 1, DictRemove(data, j),
                                       DictSet(values, attrib.name, r.val))
         IN  IF j = 0 THEN from_json_fields(st, cls, i + 1, data, values)
             ELSE converted(field_from_json(st, attrib, ValOf(data[j])))

\* a decode that looks for unknown keys before it converts the fields
dataclass_from_json_keys_first(st, cls, data, ignore_extra_keys) ==
    LET declared(k) == \E i \in 1..Len(fields(cls)) : fields(cls)[i].name = k
        unknown == {i \in 1..Len(data.items) : ~declared(KeyOf(data.items[i]))}
        first == CHOOSE i \in unknown : \A j \in unknown : i <= j
        popped(l) == IF Raised(l.r) THEN l.r ELSE construct(l.r.st, cls, l.values)
    IN  IF ~builtin_isinstance(data, "dict") THEN RaiseOther("TypeError", st)
        ELSE IF unknown # {} /\ ~ignore_extra_keys
            THEN Raise("KeyError", KeyOf(data.items[first]), NoneV, <<>>, st)
        ELSE popped(from_json_fields(st, cls, 1, data.items, <<>>))

\* dataclass_from_json(cls, data, ignore_extra_keys)
dataclass_from_json(st, cls, data, ignore_extra_keys) ==
    LET popped(l) ==
            IF Raised(l.r) THEN l.r
            ELSE IF l.data # <<>> /\ ~ignore_extra_keys
                THEN Raise("KeyError", KeyOf(l.data[1]), NoneV, <<>>, l.r.st)
            ELSE construct(l.r.st, cls, l.values)
    IN  IF ~builtin_isinstance(data, "dict") THEN RaiseOther("TypeError", st)
        ELSE popped(from_json_fields(st, cls, 1, data.items, <<>>))

\* a decode that leaves the name data on the dict the caller passed
dict_of_caller(data) == [items |-> data.items, aliased |-> TRUE]

\* line 293, data = dict(data): the name data is bound to a new dict with
\* the entries of the caller's; aliased tells whether the dict the body
\* works on is the caller's object
dict_of(data) == [items |-> data.items, aliased |-> FALSE]

\* the caller's dict after dataclass_from_json(cls, data, ignore_extra_keys):
\* the entries the pops of the loop (line 298) leave, when they are made on
\* the caller's object
dataclass_from_json_argument(st, cls, data, ignore_extra_keys) ==
    LET own == dict_of(data)
    IN  IF ~builtin_isinstance(data, "dict") THEN data
        ELSE IF own.aliased
            THEN DictV(from_json_fields(st, cls, 1, own.items, <<>>).data)
        ELSE data

(***************************************************************************)
(* json.py: JsonTypeConverter, whose _convert_recursive calls the          *)
(* from_json of a record class, and the dispatch of self.converter.        *)
(***************************************************************************)
RECURSIVE int_keys(_, _)
\* {int(k): v for k, v in data.items()}: [err, entries]
int_keys(items, converted) ==
    IF items = <<>> THEN [err |-> "", entries |-> converted]
    ELSE LET k == KeyOf(Head(items))
         IN  IF k.kind = "str" /\ ~IsIntLiteral(k.s)
                 THEN [err |-> "ValueError", entries |-> <<>>]
             ELSE IF k.kind # "str" /\ ~IsNumber(k)
                 THEN [err |-> "TypeError", entries |-> <<>>]
             ELSE int_keys(Tail(items),
                           DictSet(converted,
                                   IF k.kind = "str" THEN IntV(ParseInt(k.s)) ELSE int_of(k),
                                   ValOf(Head(items))))

\* JsonTypeConverter._convert_recursive.  Lines 42-43 are evaluated with
\* the issubclass of Python 3.6: issubclass(type_, typing.Mapping) raises
\* for a type_ that is no class, and issubclass(dict, type_) raises for a
\* parameterized generic ("Parameterized generics cannot be used with
\* class or instance checks"); the builtin dict has no __args__.
JsonTypeConverter_convert_recursive(st, data, type_, path) ==
    IF ~IsClass(type_) THEN RaiseOther("TypeError", st)
    ELSE IF issubclass_(type_, "Mapping") /\ Parameterized(type_)
        THEN RaiseOther("TypeError", st)
    ELSE IF issubclass_(type_, "Mapping") /\ type_ = dict
        THEN RaiseOther("AttributeError", st)
    ELSE IF /\ issubclass_(type_, "Mapping")
            /\ TyName(type_) \in Superclasses("dict")
            /\ Parameterized(type_)
            /\ TyArgs(type_)[1] = str
        THEN IF ~builtin_isinstance(data, "Mapping") THEN RaiseOther("AttributeError", st)
             ELSE LET ik == int_keys(data.items, <<>>)
                  IN  IF ik.err = "ValueError"
                          THEN Raise("JsonTypeError", data, type_, path, st)
                      ELSE IF ik.err # "" THEN RaiseOther(ik.err, st)
                      ELSE TypeConverter_convert_recursive(
                               "json", st, DictV(ik.entries), type_, path)
    ELSE IF IsJsonConstructible(type_) THEN dataclass_from_json(st, type_.n, data, FALSE)
    ELSE TypeConverter_convert_recursive("json", st, data, type_, path)

\* self.converter._convert_recursive: the JsonTypeConverter overrides it
convert_recursive(c, st, value, type_, path) ==
    IF c = "json" THEN JsonTypeConverter_convert_recursive(st, value, type_, path)
    ELSE TypeConverter_convert_recursive(c, st, value, type_, path)

converter(method, c, st, value, type_, path) ==
    CASE method = "_isinstance_recursive" ->
            isinstance_recursive(c, st, value, type_, path)
      [] method = "_ensure_isinstance_recursive" ->
            ensure_isinstance_recursive(c, st, value, type_, path)
      [] method = "_convert_recursive" -> convert_recursive(c, st, value, type_, path)

(***************************************************************************)
(* The values and type objects the calls are made with.                    *)
(***************************************************************************)
SeqsUpTo(S, n) == UNION {[1..k -> S] : k \in 0..n}

DistinctKeys(entries) ==
    \A i, j \in 1..Len(entries) : i # j => ~PyEq(KeyOf(entries[i]), KeyOf(entries[j]))

ScalarValues ==
    {IntV(0), IntV(1), BoolV(TRUE), FloatV(1, TRUE), NpInt(3), NpFloat(2, TRUE),
     Fraction(0),
     StrV(<<"a">>), StrV(<<"1">>), NoneV, Other}

ElemValues == {IntV(1), StrV(<<"a">>)}
KeyValues == {IntV(1), StrV(<<"a">>), StrV(<<"1">>)}
Entries == {Entry(k, v) : k \in KeyValues, v \in ElemValues}

ListValues ==
    {ListV(q) : q \in SeqsUpTo(ElemValues, MaxLen)} \cup {ListV(<<TupleV(<<IntV(1)>>)>>)}
TupleValues ==
    {TupleV(q) : q \in SeqsUpTo(ElemValues, MaxLen)}
    \cup {RangeV(<<IntV(0), IntV(1)>>)}
DictValues ==
    {DictV(q) : q \in {e \in SeqsUpTo(Entries, MaxLen) : DistinctKeys(e)}}
    \cup {DictV(<<Entry(StrV(<<"a">>), TupleV(<<IntV(1)>>))>>)}
    \cup {DictV(<<Entry(k, IntV(1))>>) : k \in {BoolV(TRUE), FloatV(1, TRUE)}}
MappingValues ==
    {MappingProxy(<<>>), MappingProxy(<<Entry(StrV(<<"a">>), IntV(1))>>),
     MappingProxy(<<Entry(StrV(<<"a">>), TupleV(<<IntV(1)>>))>>)}
SetValues == {SetV(<<>>), SetV(<<IntV(1)>>)}

\* the instances the constructors of the record classes produce
Instances ==
    {Instance(1, <<x, y>>) : x \in {IntV(0), IntV(1)}, y \in {StrV(<<"a">>), StrV(<<>>)}}
    \cup {Instance(2, <<x, y>>) : x \in {IntV(0), IntV(1)}, y \in {NoneV, IntV(1)}}
    \cup {Instance(3, <<x, y>>) : x \in {IntV(1)}, y \in {IntV(42), IntV(1)}}

\* the serialized form of an instance of class 1, alone, as the element of
\* a list and as a value of an object
RecordObject == DictV(<<Entry(StrV(<<"x">>), IntV(1)), Entry(StrV(<<"y">>), StrV(<<"a">>))>>)
\* an object whose x does not convert to the int the class declares
BadRecordObject == DictV(<<Entry(StrV(<<"x">>), StrV(<<"a">>))>>)
NestedRecordData ==
    {RecordObject, ListV(<<RecordObject>>), DictV(<<Entry(StrV(<<"a">>), RecordObject)>>),
     ListV(<<RecordObject, BadRecordObject>>)}

Values ==
    NestedRecordData \cup
    ScalarValues \cup ListValues \cup TupleValues \cup DictValues \cup MappingValues
    \cup SetValues \cup Instances

\* parsed JSON objects handed to the from_json of a record class
FieldNames == {StrV(<<"x">>), StrV(<<"y">>), StrV(<<"z">>), StrV(<<"w">>)}
FieldData == {IntV(1), StrV(<<"a">>), NoneV}
RecordData ==
    {DictV(q) : q \in {e \in SeqsUpTo({Entry(k, v) : k \in FieldNames, v \in FieldData},
                                       MaxLen) : DistinctKeys(e)}}
    \cup {DictV(<<Entry(StrV(<<"x">>), IntV(1)), Entry(StrV(<<"z">>), IntV(1)),
                  Entry(StrV(<<"y">>), y)>>) : y \in FieldData}
    \cup {DictV(<<Entry(StrV(<<"w">>), IntV(1)), Entry(StrV(<<"y">>), y),
                  Entry(StrV(<<"z">>), NoneV)>>) : y \in FieldData}

ScalarTypes == {int, float, bool, str, NoneType, Integral, Real}
ElemTypes == {int, str, Sequence(<<>>)}
ContainerTypes ==
    {list, dict, List(<<>>), Sequence(<<>>), Dict(<<>>), Mapping(<<>>), Set(<<>>)}
    \cup {tuple, set, List(<<dict>>), Union(<<list, str>>)}
    \cup {Tuple(<<int, str>>), DefaultDict(<<str, int>>)}
    \cup {List(<<List(<<str>>)>>), Dict(<<str, List(<<str>>)>>)}
    \cup {List(<<e>>) : e \in ElemTypes}
    \cup {Sequence(<<e>>) : e \in ElemTypes}
    \cup {Set(<<e>>) : e \in {int}}
    \cup {Dict(<<k, v>>) : k \in {int, str}, v \in ElemTypes}
    \cup {Mapping(<<k, v>>) : k \in {int, str}, v \in {str}}
UnionTypes ==
    {Union(<<int, str>>), Union(<<str, int>>), Union(<<int, float>>),
     Union(<<List(<<int>>), str>>), Union(<<str, List(<<int>>)>>),
     Union(<<Sequence(<<>>), str>>),
     Union(<<Dict(<<str, Sequence(<<>>)>>), Mapping(<<>>)>>),
     Union(<<int, str, NoneType>>)}
RecordTypes ==
    {RecordTy(cls) : cls \in Classes}
    \cup {List(<<RecordTy(1)>>), Dict(<<str, RecordTy(1)>>), Union(<<RecordTy(1), NoneType>>)}

Types == ScalarTypes \cup {Any} \cup ContainerTypes \cup UnionTypes \cup RecordTypes

(***************************************************************************)
(* The state: the handler cache and the handler instances of the two       *)
(* module-level converters, and the call in progress with its outcome and  *)
(* with the object the caller passed as it is after the call.              *)
(***************************************************************************)
VARIABLES handler_cache, handler_instances, pc, call, result, argument, ncalls

vars == <<handler_cache, handler_instances, pc, call, result, argument, ncalls>>

st == [cache |-> handler_cache, inst |-> handler_instances]

Call(op, value, type_, flag) == [op |-> op, value |-> value, type_ |-> type_, flag |-> flag]
NoCall == Call("none", NoneV, NoneV, FALSE)

\* what the caller sees of an outcome
Outcome(r) ==
    [tag |-> r.tag, b |-> r.b, val |-> r.val, new |-> r.new, err |-> r.err, ev |-> r.ev,
     et |-> r.et, path |-> r.path]
NoOutcome == Outcome(Ret(FALSE, NoneV, FreshState))

Init ==
    /\ handler_cache = FreshState.cache
    /\ handler_instances = FreshState.inst
    /\ pc = "idle"
    /\ call = NoCall
    /\ result = NoOutcome
    /\ argument = NoneV
    /\ ncalls = 0

\* a call may start: none is in progress
Idle == pc = "idle" /\ ncalls < MaxCalls

\* the call c ends with outcome r and leaves the object passed as after
Finish(c, r, after) ==
    /\ handler_cache' = r.st.cache
    /\ handler_instances' = r.st.inst
    /\ pc' = "returned"
    /\ call' = c
    /\ result' = Outcome(r)
    /\ argument' = after
    /\ ncalls' = ncalls + 1

\* typing.isinstance_ext(value, type_)
Isinstance ==
    /\ Idle
    /\ \E value \in Values, type_ \in Types :
        Finish(Call("isinstance", value, type_, FALSE),
               TypeConverter_isinstance("default", st, value, type_), value)

\* typing.ensure_isinstance_ext(value, type_)
EnsureIsinstance ==
    /\ Idle
    /\ \E value \in Values, type_ \in Types :
        Finish(Call("ensure_isinstance", value, type_, FALSE),
               TypeConverter_ensure_isinstance("default", st, value, type_), value)

\* typing.astype(value, type_)
Convert ==
    /\ Idle
    /\ \E value \in Values, type_ \in Types :
        Finish(Call("convert", value, type_, FALSE), astype(st, value, type_), value)

\* default_json_converter.typeconverter.convert(value, type_)
JsonConvert ==
    /\ Idle
    /\ \E value \in Values, type_ \in Types :
        Finish(Call("json_convert", value, type_, FALSE),
               TypeConverter_convert("json", st, value, type_), value)

\* json.from_json(type_, data)
FromJson ==
    /\ Idle
    /\ \E type_ \in Types, data \in Values :
        Finish(Call("from_json", data, type_, FALSE),
               JsonConverter_from_json(st, type_, data), data)

\* json.to_json(value)
ToJson ==
    /\ Idle
    /\ \E value \in Values :
        Finish(Call("to_json", value, NoneV, FALSE), JsonConverter_to_json(st, value),
               value)

\* cls.from_json(data, ignore_extra_keys) of a record class
DataclassFromJson ==
    /\ Idle
    /\ \E cls \in Classes, data \in RecordData, ignore_extra_keys \in BOOLEAN :
        Finish(Call("dataclass_from_json", data, RecordTy(cls), ignore_extra_keys),
               dataclass_from_json(st, cls, data, ignore_extra_keys),
               dataclass_from_json_argument(st, cls, data, ignore_extra_keys))

\* instance.to_json() of a record instance
DataclassToJson ==
    /\ Idle
    /\ \E instance \in Instances :
        Finish(Call("dataclass_to_json", instance, NoneV, FALSE),
               dataclass_to_json(st, instance), instance)

\* the caller takes the outcome
Return ==
    /\ pc = "returned"
    /\ pc' = "idle"
    /\ call' = NoCall
    /\ result' = NoOutcome
    /\ argument' = NoneV
    /\ UNCHANGED <<handler_cache, handler_instances, ncalls>>

Next ==
    \/ Isinstance
    \/ EnsureIsinstance
    \/ Convert
    \/ JsonConvert
    \/ FromJson
    \/ ToJson
    \/ DataclassFromJson
    \/ DataclassToJson
    \/ Return

Spec == Init /\ [][Next]_vars

TypeOK ==
    /\ pc \in {"idle", "returned"}
    /\ ncalls \in 0..MaxCalls
    /\ result.tag \in {"ok", "err"}

(***************************************************************************)
(* A session: several calls in a row on the module-level converters, each  *)
(* finding the handler cache and the handler instances the earlier calls   *)
(* left.  The calls are made with a few values and types.                  *)
(***************************************************************************)
\* number of calls of a session
MaxSession == 3

SessionValues ==
    {IntV(1), ListV(<<IntV(1)>>), DictV(<<Entry(StrV(<<"a">>), IntV(1))>>)}
SessionTypes ==
    {int, bool, list, List(<<int>>), Dict(<<str, int>>), Union(<<int, str>>), Any}

InSession == pc = "idle" /\ ncalls < MaxSession

\* typing.isinstance_ext(value, type_)
SessionIsinstance ==
    /\ InSession
    /\ \E value \in SessionValues, type_ \in SessionTypes :
        Finish(Call("isinstance", value, type_, FALSE),
               TypeConverter_isinstance("default", st, value, type_), value)

\* typing.ensure_isinstance_ext(value, type_)
SessionEnsureIsinstance ==
    /\ InSession
    /\ \E value \in SessionValues, type_ \in SessionTypes :
        Finish(Call("ensure_isinstance", value, type_, FALSE),
               TypeConverter_ensure_isinstance("default", st, value, type_), value)

\* typing.astype(value, type_)
SessionConvert ==
    /\ InSession
    /\ \E value \in SessionValues, type_ \in SessionTypes :
        Finish(Call("convert", value, type_, FALSE), astype(st, value, type_), value)

\* default_json_converter.typeconverter.convert(value, type_)
SessionJsonConvert ==
    /\ InSession
    /\ \E value \in SessionValues, type_ \in SessionTypes :
        Finish(Call("json_convert", value, type_, FALSE),
               TypeConverter_convert("json", st, value, type_), value)

SessionNext ==
    \/ SessionIsinstance
    \/ SessionEnsureIsinstance
    \/ SessionConvert
    \/ SessionJsonConvert
    \/ Return

SessionSpec == Init /\ [][SessionNext]_vars

(***************************************************************************)
(* Properties.  A property speaks of the state a call has just returned    *)
(* to: the call made, its outcome, and the caches it left behind, which    *)
(* are the caches any further call of the property is evaluated in.        *)
(***************************************************************************)
Returned(op) == pc = "returned" /\ call.op = op
Succeeded == result.tag = "ok"
\* the check isinstance(value, type_) made now says yes
Holds(value, type_) ==
    LET r == isinstance_recursive("default", st, value, type_, <<>>)
    IN  ~Raised(r) /\ r.b

\* C1: isinstance(v, Union(b1..bn)) is true exactly when isinstance(v, bi)
\* is true for at least one branch bi.
C1_UnionIsAnyBranch ==
    (Returned("isinstance") /\ is_union_type(call.type_)) =>
        ((Succeeded /\ result.b) <=>
            \E i \in 1..Len(TyArgs(call.type_)) : Holds(call.value, TyArgs(call.type_)[i]))

\* C2: whenever convert(v, T) returns a value, that value satisfies
\* isinstance(., T).
C2_ConvertedIsInstance ==
    (Returned("convert") /\ Succeeded) =>
        LET r == TypeConverter_isinstance("default", st, result.val, call.type_)
        IN  ~Raised(r) /\ r.b

\* C3: isinstance(v, T) returns a boolean and never raises, for every value
\* v and every well-formed descriptor T.
C3_IsinstanceNeverRaises ==
    Returned("isinstance") => (Succeeded /\ result.val = NoneV)

\* every field the serialized form leaves out holds its declared default
HoldsDefaults(r) ==
    \A i \in 1..Len(fields(r.n)) : ~fields(r.n)[i].json => r.items[i] = fields(r.n)[i].default
\* decoding the serialized form d of the record r gives back an equal record
DecodesTo(d, r) ==
    LET back == dataclass_from_json(st, r.n, d, FALSE)
    IN  ~Raised(back) /\ PyEq(back.val, r)

\* C4 (as stated): for every instance r of a record class with JSON support,
\* whatever its fields hold, fields declared json=False included, decoding
\* r's own serialized form gives back a record equal to r.
C4_RoundTripAnyInstance ==
    Returned("dataclass_to_json") => (Succeeded /\ DecodesTo(result.val, call.value))

\* C4 (amended): for every instance r in which every field declared
\* json=False holds its declared default, decoding r's own serialized form
\* gives back a record equal to r.
C4_RoundTripOfDefaults ==
    (Returned("dataclass_to_json") /\ HoldsDefaults(call.value)) =>
        (Succeeded /\ DecodesTo(result.val, call.value))

\* C4: an instance of the class with a json=False field has been
\* serialized, the field holding its default and left out of the form
C4_Witness ==
    /\ Returned("dataclass_to_json") /\ Succeeded
    /\ call.value.n = 2 /\ HoldsDefaults(call.value)
    /\ KeyIndex(result.val.items, StrV(<<"x">>)) # 0
    /\ KeyIndex(result.val.items, StrV(<<"y">>)) = 0

RECURSIVE IsJsonTree(_)
\* what json.load returns
IsJsonTree(d) ==
    \/ d.kind \in {"none", "bool", "int", "float", "str"}
    \/ d.kind = "list" /\ \A i \in 1..Len(d.items) : IsJsonTree(d.items[i])
    \/ d.kind = "dict" /\ \A i \in 1..Len(d.items) :
           KeyOf(d.items[i]).kind = "str" /\ IsJsonTree(ValOf(d.items[i]))

\* a mapping type whose declared key type is integral
IntegralKeyed(type_) ==
    /\ TyName(type_) \in {"Dict", "Mapping"}
    /\ Len(TyArgs(type_)) = 2
    /\ TyArgs(type_)[1] \in {int, Integral}

\* m: a dict with at least one key, every key an int, every value of type V
IntKeyedOf(m, V) ==
    /\ m.kind = "dict" /\ m.items # <<>>
    /\ \A i \in 1..Len(m.items) :
           KeyOf(m.items[i]).kind = "int" /\ isinstance_class(ValOf(m.items[i]), V)

\* C5: from_json(Mapping(Integral, V), to_json(m)) == m for every native
\* mapping m with integer keys and V-typed values: the text keys of the
\* serialized object are read back as integers.
C5_IntKeyRoundTrip ==
    (Returned("from_json") /\ IntegralKeyed(call.type_)) =>
        \A m \in DictValues :
            LET d == JsonConverter_to_json(st, m)
            IN  (IntKeyedOf(m, TyArgs(call.type_)[2]) /\ ~Raised(d) /\ d.val = call.value) =>
                    (Succeeded /\ PyEq(result.val, m))

\* C6: for every type T that is neither a record type nor an integral-keyed
\* mapping and every serialized tree d, from_json(T, d) returns what the
\* converter's convert(d, T) returns and raises exactly when it raises.
C6_FromJsonIsConvert ==
    (/\ Returned("from_json") /\ IsJsonTree(call.value)
     /\ ~IsJsonConstructible(call.type_) /\ ~IntegralKeyed(call.type_)) =>
        result = Outcome(TypeConverter_convert("json", st, call.value, call.type_))

\* k names a field the class declares
IsField(cls, k) == \E i \in 1..Len(fields(cls)) : fields(cls)[i].name = k
\* the entries of a serialized object under keys that are no declared
\* field, and the others, both in the object's key order
Unrecognized(cls, items) == SelectSeq(items, LAMBDA e : ~IsField(cls, KeyOf(e)))
Recognized(cls, items) == SelectSeq(items, LAMBDA e : IsField(cls, KeyOf(e)))
\* every declared field the object holds converts to the field's type
FieldsConvert(cls, items) ==
    \A i \in 1..Len(fields(cls)) :
        LET j == KeyIndex(items, fields(cls)[i].name)
        IN  j # 0 => ~Raised(field_from_json(st, fields(cls)[i], ValOf(items[j])))

\* C7 (as stated): decoding an object that holds a key that is no declared
\* field fails in the default mode with an error naming the first
\* unrecognized key; with ignore_extra_keys it succeeds and returns the
\* record that decoding the object without the unrecognized keys returns.
C7_UnknownKeyAlways ==
    (/\ Returned("dataclass_from_json")
     /\ Unrecognized(call.type_.n, call.value.items) # <<>>) =>
        LET cls == call.type_.n
            stripped == dataclass_from_json(st, cls,
                                            DictV(Recognized(cls, call.value.items)), FALSE)
        IN  IF ~call.flag
                THEN /\ ~Succeeded
                     /\ result.ev = KeyOf(Unrecognized(cls, call.value.items)[1])
                ELSE Succeeded /\ ~Raised(stripped) /\ PyEq(result.val, stripped.val)

\* C7 (amended): decoding an object that holds a key that is no declared
\* field: in the default mode, when every declared field the object holds
\* converts, it fails with a KeyError naming the first unrecognized key;
\* with ignore_extra_keys its outcome, record or error, is the outcome of
\* decoding the object without the unrecognized keys.
C7_UnknownKey ==
    (/\ Returned("dataclass_from_json")
     /\ Unrecognized(call.type_.n, call.value.items) # <<>>) =>
        LET cls == call.type_.n
            stripped == dataclass_from_json(st, cls,
                                            DictV(Recognized(cls, call.value.items)), FALSE)
        IN  IF ~call.flag
                THEN FieldsConvert(cls, call.value.items) =>
                        /\ result.tag = "err" /\ result.err = "KeyError"
                        /\ result.ev = KeyOf(Unrecognized(cls, call.value.items)[1])
                ELSE result = Outcome(stripped)

\* C7: an object holding a declared field after one unrecognized key and
\* before another has been decoded in the default mode and refused
C7_Witness ==
    /\ Returned("dataclass_from_json") /\ ~call.flag
    /\ Len(Unrecognized(call.type_.n, call.value.items)) = 2
    /\ Recognized(call.type_.n, call.value.items) # <<>>
    /\ ~IsField(call.type_.n, KeyOf(call.value.items[1]))
    /\ FieldsConvert(call.type_.n, call.value.items)
    /\ result.err = "KeyError"

\* list, List, Sequence, with or without an element type
SequenceLike(type_) == TyName(type_) \in {"list", "List", "Sequence"}

\* C8: a str never satisfies a sequence type: for every str s and every
\* sequence-like type, isinstance(s, type) is false and convert(s, type)
\* raises a conversion error.
C8_TextIsNoSequence ==
    (/\ pc = "returned" /\ call.op \in {"isinstance", "convert"}
     /\ call.value.kind = "str" /\ SequenceLike(call.type_)) =>
        IF call.op = "isinstance" THEN Succeeded /\ ~result.b
        ELSE result.tag = "err" /\ result.err = "TypeConversionError"

\* the first branch whose isinstance check on value says yes, 0 when
\* there is none
FirstMatch(value, branches) ==
    IF \E i \in 1..Len(branches) : Holds(value, branches[i])
        THEN CHOOSE i \in 1..Len(branches) :
                 Holds(value, branches[i]) /\ \A j \in 1..(i - 1) : ~Holds(value, branches[j])
        ELSE 0

\* C9: convert(v, Union(b1..bn)) returns convert(v, bi) for the first branch
\* bi whose isinstance check on v succeeds; when no branch's check succeeds
\* it raises a conversion error carrying v and the union.
C9_UnionConvertFirstMatch ==
    (Returned("convert") /\ is_union_type(call.type_)) =>
        LET i == FirstMatch(call.value, TyArgs(call.type_))
        IN  IF i # 0
                THEN result = Outcome(convert_recursive("default", st, call.value,
                                                        TyArgs(call.type_)[i], <<>>))
                ELSE /\ result.tag = "err" /\ result.err = "TypeConversionError"
                     /\ result.ev = call.value /\ result.et = call.type_

RECURSIVE UnionFree(_)
\* no union in the type or in its arguments
UnionFree(type_) ==
    ~is_union_type(type_) /\ \A i \in 1..Len(TyArgs(type_)) : UnionFree(TyArgs(type_)[i])
RECURSIVE RecordFree(_)
\* no record class in the type or in its arguments
RecordFree(type_) ==
    ~IsJsonConstructible(type_) /\ \A i \in 1..Len(TyArgs(type_)) : RecordFree(TyArgs(type_)[i])
\* the converter a convert call was made on
ConverterOf(op) == IF op = "json_convert" THEN "json" ELSE "default"
\* converting the result of the call again, to the same type on the same
\* converter, succeeds with an equal value
ConvertsToItself ==
    LET again == TypeConverter_convert(ConverterOf(call.op), st, result.val, call.type_)
    IN  ~Raised(again) /\ PyEq(again.val, result.val)

StableBranch(value, type_, converted) ==
    \/ UnionFree(type_)
    \/ /\ is_union_type(type_)
       /\ \A i \in 1..Len(TyArgs(type_)) : UnionFree(TyArgs(type_)[i])
       /\ FirstMatch(converted, TyArgs(type_)) = FirstMatch(value, TyArgs(type_))

MappingLike(type_) == TyName(type_) \in {"dict", "Dict", "Mapping"}
\* a native list converted to a list-like type, or a native dict converted
\* to a dict-like type
NativeContainerCall ==
    /\ Returned("convert")
    /\ \/ call.value.kind = "list" /\ SequenceLike(call.type_)
       \/ call.value.kind = "dict" /\ MappingLike(call.type_)

\* C11: for a native list (dict) v, convert(v, T) returns the identical
\* object v when T is an unparameterized list-like (dict-like) type, and
\* whenever it returns for a parameterized T it returns a newly allocated
\* list (dict), also when every element of v already has its type.
C11_NativeContainerIdentity ==
    NativeContainerCall =>
        IF ~Parameterized(call.type_)
            THEN Succeeded /\ ~result.new /\ result.val = call.value
            ELSE Succeeded => (result.new /\ result.val.kind = call.value.kind)

\* C11: a native dict whose keys and values already have their types has
\* been converted to a parameterized dict type: an equal, new dict
C11_Witness ==
    /\ NativeContainerCall /\ Succeeded
    /\ call.type_ = Dict(<<str, int>>) /\ Len(call.value.items) = 2
    /\ result.val = call.value /\ result.new

\* C12: ensure_isinstance(v, T) raises a conversion error exactly when
\* isinstance(v, T) is false, the error carrying v, the descriptor T (as
\* resolved) and the current path; otherwise it returns, with no value.
C12_EnsureFollowsIsinstance ==
    Returned("ensure_isinstance") =>
        LET i == TypeConverter_isinstance("default", st, call.value, call.type_)
        IN  IF ~Raised(i) /\ ~i.b
                THEN /\ result.tag = "err" /\ result.err = "TypeConversionError"
                     /\ result.ev = call.value
                     /\ result.et = type_aliases(call.type_)
                     /\ result.path = <<>>
                ELSE Succeeded /\ result.val = NoneV

\* the classes of the values of each scalar kind: a bool is also an int
ScalarKind(type_) ==
    CASE type_ = int -> {"int", "bool"}
      [] type_ = float -> {"float"}
      [] type_ = bool -> {"bool"}
      [] type_ = str -> {"str"}
      [] type_ = NoneType -> {"none"}

\* C13: for every scalar type (int, float, bool, str, NoneType) and every
\* value of that kind, isinstance is true, ensure_isinstance returns and
\* convert returns a value equal to the input; for every value of another
\* kind isinstance is false and ensure_isinstance raises a conversion error.
C13_ScalarKinds ==
    (/\ pc = "returned" /\ call.op \in {"isinstance", "ensure_isinstance", "convert"}
     /\ call.type_ \in {int, float, bool, str, NoneType}) =>
        IF call.value.kind \in ScalarKind(call.type_)
            THEN /\ Succeeded
                 /\ call.op = "isinstance" => result.b
                 /\ call.op = "convert" => PyEq(result.val, call.value)
            ELSE /\ call.op = "isinstance" => (Succeeded /\ ~result.b)
                 /\ call.op = "ensure_isinstance" =>
                        (result.tag = "err" /\ result.err = "TypeConversionError")

\* C13: a bool has been converted to int: the result is an int equal to it
C13_Witness ==
    /\ Returned("convert") /\ Succeeded
    /\ call.type_ = int /\ call.value.kind = "bool"
    /\ result.val.kind = "int" /\ PyEq(result.val, call.value)

\* instances of numbers.Integral / numbers.Real
IntegralLike(value) == value.kind \in {"int", "bool", "npint"}
RealLike(value) == IsNumber(value)

\* C14 (as stated): convert(v, Integral) (or int) returns a native int
\* equal in value to v for every integral-like v, foreign integers included,
\* and convert(x, Real) (or float) a native float equal in value to x for
\* every real-like x; a value that is not integral-like (real-like) makes
\* the conversion raise a conversion error.
C14_NumericConversionExact ==
    (Returned("convert") /\ call.type_ \in {Integral, int, Real, float}) =>
        LET integral == call.type_ \in {Integral, int}
        IN  IF (IF integral THEN IntegralLike(call.value) ELSE RealLike(call.value))
                THEN /\ Succeeded
                     /\ result.val.kind = (IF integral THEN "int" ELSE "float")
                     /\ PyEq(result.val, call.value)
                ELSE result.tag = "err" /\ result.err = "TypeConversionError"

\* some float has the value of the number x
FloatRepresentable(x) == Third(x) # "1/3"

\* C14 (amended): as stated for the integral-like values; for every
\* real-like x, convert(x, Real) (or float) returns a native float, equal in
\* value to x when x is representable as a float.
C14_NumericConversion ==
    (Returned("convert") /\ call.type_ \in {Integral, int, Real, float}) =>
        LET integral == call.type_ \in {Integral, int}
        IN  IF (IF integral THEN IntegralLike(call.value) ELSE RealLike(call.value))
                THEN /\ Succeeded
                     /\ result.val.kind = (IF integral THEN "int" ELSE "float")
                     /\ (integral \/ FloatRepresentable(call.value)) =>
                            PyEq(result.val, call.value)
                ELSE result.tag = "err" /\ result.err = "TypeConversionError"

\* C14: a foreign integer has been converted to Integral: a native int of
\* the same value
C14_Witness ==
    /\ Returned("convert") /\ Succeeded
    /\ call.type_ = Integral /\ call.value.kind = "npint"
    /\ result.val = IntV(call.value.n)

\* a field without default (and not optional) that the object leaves out
RequiredMissing(cls, items) ==
    \E i \in 1..Len(fields(cls)) :
        ~fields(cls)[i].has_default /\ KeyIndex(items, fields(cls)[i].name) = 0

\* C15: decoding a record from data that leaves a declared field out: when
\* a field without default and not optional is left out the decode fails,
\* in the constructor (TypeError) when nothing fails before it; otherwise
\* the decoded record holds, in every field left out, the field's default
\* (None for an optional field without one) and, in every field present,
\* its converted value.
C15_AbsentFieldTakesDefault ==
    Returned("dataclass_from_json") =>
        LET cls == call.type_.n
            items == call.value.items
            decodable == /\ FieldsConvert(cls, items)
                         /\ (call.flag \/ Unrecognized(cls, items) = <<>>)
        IN  IF RequiredMissing(cls, items)
                THEN /\ ~Succeeded
                     /\ decodable => result.err = "TypeError"
                ELSE decodable =>
                        /\ Succeeded
                        /\ \A i \in 1..Len(fields(cls)) :
                               LET j == KeyIndex(items, fields(cls)[i].name)
                               IN  IF j = 0
                                       THEN result.val.items[i] = fields(cls)[i].default
                                       ELSE PyEq(result.val.items[i],
                                                 field_from_json(st, fields(cls)[i],
                                                                 ValOf(items[j])).val)

\* C15: an object without the field that has the default 42 has been
\* decoded: the record holds 42 there and the converted value elsewhere
C15_Witness ==
    /\ Returned("dataclass_from_json") /\ Succeeded
    /\ call.type_.n = 3 /\ KeyIndex(call.value.items, StrV(<<"y">>)) = 0
    /\ result.val = Instance(3, <<IntV(1), IntV(42)>>)

\* the decimal text of the integer k
DecimalText(k) == str_of(IntV(k.n))
\* the serialized form of the value v, None when it has none
Serialized(v) == LET r == to_json_rec(st, v, <<>>) IN IF Raised(r) THEN NoneV ELSE r.val

\* C16: to_json of a mapping: when every key is text the object has the
\* same keys, when every key is an integer (a bool counting as one) each
\* key is replaced by its decimal text, in both cases with every value
\* converted; a mapping with keys of both kinds, or with a first key that
\* is neither, is refused with a JsonTypeError.
C16_MappingKeyUnification ==
    (Returned("to_json") /\ call.value.kind \in {"dict", "mapping"}) =>
        LET items == call.value.items
            allText == \A i \in 1..Len(items) : KeyOf(items[i]).kind = "str"
            allInt == \A i \in 1..Len(items) : KeyOf(items[i]).kind \in {"int", "bool"}
        IN  IF allText \/ allInt
                THEN /\ Succeeded
                     /\ result.val =
                            DictV([i \in 1..Len(items) |->
                                      Entry(IF allText THEN KeyOf(items[i])
                                            ELSE DecimalText(KeyOf(items[i])),
                                            Serialized(ValOf(items[i])))])
                ELSE result.tag = "err" /\ result.err = "JsonTypeError"

\* C17: for each unparameterized list-like type (list, List, Sequence),
\* convert(v, type) returns a native list equal to list(v) for every
\* sequence v that is no text (list, tuple, range) and raises a conversion
\* error for every other value; for each unparameterized dict-like type
\* (dict, Dict, Mapping) it returns a native dict equal to dict(v) for every
\* mapping v and raises a conversion error for every other value.
C17_UnparameterizedContainers ==
    (/\ Returned("convert") /\ ~Parameterized(call.type_)
     /\ (SequenceLike(call.type_) \/ MappingLike(call.type_))) =>
        IF SequenceLike(call.type_)
            THEN IF call.value.kind \in {"list", "tuple", "range"}
                     THEN Succeeded /\ result.val = ListV(call.value.items)
                     ELSE result.tag = "err" /\ result.err = "TypeConversionError"
            ELSE IF call.value.kind \in {"dict", "mapping"}
                     THEN Succeeded /\ result.val = DictV(call.value.items)
                     ELSE result.tag = "err" /\ result.err = "TypeConversionError"

\* C17: a range has been converted to Sequence: a new native list of its
\* elements
C17_Witness ==
    /\ Returned("convert") /\ Succeeded
    /\ call.type_ = Sequence(<<>>) /\ call.value.kind = "range"
    /\ result.val = ListV(<<IntV(0), IntV(1)>>) /\ result.new

\* a mapping type whose declared key type is text
TextKeyed(type_) ==
    /\ TyName(type_) \in {"Dict", "Mapping"}
    /\ Len(TyArgs(type_)) = 2
    /\ TyArgs(type_)[1] = str
\* a serialized object: a dict whose keys are all text
IsJsonObject(d) ==
    d.kind = "dict" /\ \A i \in 1..Len(d.items) : KeyOf(d.items[i]).kind = "str"

\* C18: for a mapping type whose key type is text, from_json leaves the
\* keys of the serialized object as they are and has the outcome of the
\* general mapping conversion: from_json(Mapping(str, V), {"a": x}) is
\* {"a": convert(x, V)}, and no key is refused for not being a decimal
\* integer.
C18_TextKeysKept ==
    (Returned("from_json") /\ TextKeyed(call.type_) /\ IsJsonObject(call.value)) =>
        result = Outcome(TypeConverter_convert_recursive("json", st, call.value,
                                                         call.type_, <<>>))

\* d is a serialized object the from_json of the record class R accepts
Decodes(R, d) == d.kind = "dict" /\ ~Raised(dataclass_from_json(st, R.n, d, FALSE))
\* the record the from_json of R makes of d
Decoded(R, d) == dataclass_from_json(st, R.n, d, FALSE).val
\* the record class among the branches of a union, NoneV when there is none
RecordBranch(type_) ==
    IF \E i \in 1..Len(TyArgs(type_)) : IsJsonConstructible(TyArgs(type_)[i])
        THEN TyArgs(type_)[CHOOSE i \in 1..Len(TyArgs(type_)) :
                              IsJsonConstructible(TyArgs(type_)[i])]
        ELSE NoneV

\* C19: in a conversion from serialized data, data at a position whose type
\* is a record class is converted by the from_json of the class, and that
\* record is the result at the position: at top level, as the element of a
\* list, as the value of a mapping and as a branch of a union, where
\* converting a serialized object yields the decoded record.
C19_RecordDelegation ==
    (pc = "returned" /\ call.op \in {"from_json", "json_convert"}) =>
        LET T == call.type_
            d == call.value
        IN  /\ (IsJsonConstructible(T) /\ Decodes(T, d)) =>
                   (Succeeded /\ result.val = Decoded(T, d))
            /\ (/\ TyName(T) = "List" /\ Len(TyArgs(T)) = 1
                /\ IsJsonConstructible(TyArgs(T)[1]) /\ d.kind = "list"
                /\ \A i \in 1..Len(d.items) : Decodes(TyArgs(T)[1], d.items[i])) =>
                   (/\ Succeeded
                    /\ result.val =
                           ListV([i \in 1..Len(d.items) |-> Decoded(TyArgs(T)[1], d.items[i])]))
            /\ (/\ TextKeyed(T) /\ IsJsonConstructible(TyArgs(T)[2]) /\ IsJsonObject(d)
                /\ \A i \in 1..Len(d.items) : Decodes(TyArgs(T)[2], ValOf(d.items[i]))) =>
                   (/\ Succeeded
                    /\ result.val =
                           DictV([i \in 1..Len(d.items) |->
                                     Entry(KeyOf(d.items[i]),
                                           Decoded(TyArgs(T)[2], ValOf(d.items[i])))]))
            /\ (/\ is_union_type(T) /\ RecordBranch(T) # NoneV
                /\ Decodes(RecordBranch(T), d)) =>
                   (Succeeded /\ result.val = Decoded(RecordBranch(T), d))

RECURSIVE GenericForm(_)
\* the type with every list, dict, tuple and set in it, at any depth,
\* replaced by List, Dict, Tuple and Set
GenericForm(type_) ==
    IF TyArgs(type_) = <<>> THEN type_aliases(type_)
    ELSE Ty(TyName(type_), [i \in 1..Len(TyArgs(type_)) |-> GenericForm(TyArgs(type_)[i])])

\* the outcome of the call made, when made with the type type_
OutcomeWith(type_) ==
    CASE call.op = "isinstance" ->
            Outcome(TypeConverter_isinstance("default", st, call.value, type_))
      [] call.op = "ensure_isinstance" ->
            Outcome(TypeConverter_ensure_isinstance("default", st, call.value, type_))
      [] call.op = "convert" ->
            Outcome(TypeConverter_convert("default", st, call.value, type_))

\* C20: list, dict, tuple and set dispatch as List, Dict, Tuple and Set do:
\* for every value, isinstance / ensure_isinstance / convert with a type
\* that holds a native container class, at top level, as an element type or
\* as a union branch, have the outcome they have with the generic forms in
\* its place, and the assertion of handler resolution never fails.
C20_NativeHandlesAliased ==
    (pc = "returned" /\ call.op \in {"isinstance", "ensure_isinstance", "convert"}) =>
        /\ result = OutcomeWith(GenericForm(call.type_))
        /\ result.err # "AssertionError"

\* the handler a converter that has resolved nothing yet selects for type_
FreshResolution(c, type_) == get_handler(c, FreshState, type_).h

\* every entry of the cache of converter c holds the handler a fresh
\* resolution selects, resolving its type again yields that handler and
\* changes nothing, and the handler is a registered instance
CacheFaithful(c) ==
    \A t \in DOMAIN handler_cache[c] :
        /\ handler_cache[c][t] = FreshResolution(c, t)
        /\ get_handler(c, st, t) = [err |-> "", h |-> handler_cache[c][t], st |-> st]
        /\ handler_cache[c][t] \in DOMAIN handler_instances[c]

\* converter c has created one instance of each handler class it uses
OneInstancePerClass(c) ==
    \A h \in DOMAIN handler_instances[c] : handler_instances[c][h] = 1

\* a step leaves every entry of the caches with the handler it had
EntriesKept ==
    \A c \in {"default", "json"} :
        \A t \in DOMAIN handler_cache[c] :
            t \in DOMAIN handler_cache'[c] => handler_cache'[c][t] = handler_cache[c][t]

\* C21: after any sequence of isinstance / ensure_isinstance / convert calls
\* on a converter, each entry of its handler cache maps the type to the
\* handler a fresh resolution of that type selects; resolving a cached type
\* returns the cached handler and leaves cache and instances as they are;
\* no step replaces the handler of an entry; and the converter holds one
\* instance per handler class.
C21_HandlerCache ==
    /\ [](\A c \in {"default", "json"} : CacheFaithful(c) /\ OneInstancePerClass(c))
    /\ [][EntriesKept]_vars

\* C21: a session of MaxSession calls has ended; the default converter has
\* cached List and List[int] on the one list handler and int besides, and
\* the JSON converter has a cache of its own
C21_Witness ==
    /\ pc = "returned" /\ ncalls = MaxSession
    /\ {int, List(<<>>), List(<<int>>)} \subseteq DOMAIN handler_cache["default"]
    /\ handler_cache["default"][List(<<>>)] = handler_cache["default"][List(<<int>>)]
    /\ handler_instances["default"][ListTypeHandler] = 1
    /\ DOMAIN handler_cache["json"] # {}
    /\ DOMAIN handler_cache["json"] # DOMAIN handler_cache["default"]

\* C22: bool is left out of the numeric widening: the converter resolves
\* bool to the trivial handler, so convert(v, bool) returns v itself when v
\* is a bool and raises a conversion error for every other v, the integers
\* 0 and 1 and the foreign integers included.
C22_BoolNotWidened ==
    (pc = "returned" /\ call.op \in {"convert", "json_convert"} /\ call.type_ = bool) =>
        /\ handler_cache[ConverterOf(call.op)][bool] = TrivialTypeHandler
        /\ IF call.value.kind = "bool"
               THEN Succeeded /\ result.val = call.value /\ ~result.new
               ELSE /\ result.tag = "err" /\ result.err = "TypeConversionError"
                    /\ result.ev = call.value /\ result.et = bool

\* C22: the integer 1, equal to True, has been refused by convert(1, bool)
C22_Witness ==
    /\ Returned("convert") /\ call.type_ = bool
    /\ call.value = IntV(1) /\ PyEq(call.value, BoolV(TRUE))
    /\ result.err = "TypeConversionError"

\* the declared fields of cls, by position, that the object holds with a
\* value that does not convert
FailingFields(cls, items) ==
    {i \in 1..Len(fields(cls)) :
        LET j == KeyIndex(items, fields(cls)[i].name)
        IN  j # 0 /\ Raised(field_from_json(st, fields(cls)[i], ValOf(items[j])))}

Elements(value) ==
    IF value.kind = "str" THEN [i \in 1..Len(value.s) |-> StrV(<<value.s[i]>>)]
    ELSE value.items

\* C24: for a parameterized sequence or collection type C[E] (List[E],
\* Sequence[E], Set[E]) and any value v, isinstance(v, C[E]) returns true
\* when v is an instance of the container class of C and every element of v
\* is an instance of E, and returns false otherwise; true for an empty
\* container and for [1, 1] against List[int].
C24_ParameterizedCollection ==
    (/\ Returned("isinstance")
     /\ TyName(call.type_) \in {"List", "Sequence", "Set"}
     /\ Parameterized(call.type_)) =>
        /\ Succeeded
        /\ result.b = (/\ isinstance_class(call.value, Origin(call.type_))
                       /\ \A i \in 1..Len(Elements(call.value)) :
                              Holds(Elements(call.value)[i], TyArgs(call.type_)[1]))

\* the handler the declared resolution order gives a type, first match
\* first; "NotImplementedError" for the refused fixed-arity tuple
DeclaredHandler(type_) ==
    LET name == TyName(type_)
        args == TyArgs(type_)
    IN  IF type_ = Any THEN AnyTypeHandler
        ELSE IF name = "Union" THEN UnionTypeHandler
        ELSE IF name = "Tuple" /\ args # <<>> /\ args[Len(args)] # Ellipsis
            THEN "NotImplementedError"
        ELSE IF name \in {"Dict", "Mapping"} THEN DictTypeHandler
        ELSE IF name = "DefaultDict" /\ args # <<>> THEN MappingTypeHandler
        ELSE IF name \in {"List", "Sequence"} THEN ListTypeHandler
        ELSE IF name = "Set" /\ args # <<>> THEN CollectionTypeHandler
        ELSE IF name \in {"int", "Integral"} THEN IntTypeHandler
        ELSE IF name \in {"float", "Real"} THEN FloatTypeHandler
        ELSE TrivialTypeHandler

\* C25: handler resolution follows the declared order, first match wins:
\* Any gives the always-accept handler, a union the union handler, a
\* fixed-arity tuple the not-implemented failure, a mapping generic that
\* dict is a subclass of the dict handler, another parameterized mapping the
\* mapping handler, a sequence generic that list is a subclass of the list
\* handler, another parameterized sequence or collection the collection
\* handler, a non-bool integral class the integral handler, a non-bool real
\* class the real handler, and everything else the trivial handler.
C25_ResolutionOrder ==
    (pc = "returned" /\ call.op \in {"isinstance", "ensure_isinstance", "convert"}) =>
        LET type_ == type_aliases(call.type_)
            g == get_handler("default", st, type_)
        IN  IF DeclaredHandler(type_) = "NotImplementedError"
                THEN result.tag = "err" /\ result.err = "NotImplementedError"
                ELSE g.err = "" /\ g.h = DeclaredHandler(type_)

RECURSIVE FirstFailure(_, _, _, _)
\* where converting value to type_ at path on converter c fails first, when
\* it fails: [path, value] of the innermost element, found by descending at
\* each level into the first element (in iteration order, the key before
\* the value) whose conversion raises
FirstFailure(c, value, type_, path) ==
    LET fails(v, t, p) == Raised(converter("_convert_recursive", c, st, v, t, p))
        args == TyArgs(type_)
        items == value.items
    IN  IF /\ TyName(type_) \in {"List", "Sequence"} /\ Parameterized(type_)
           /\ builtin_isinstance(value, "Sequence") /\ ~builtin_isinstance(value, "str")
            THEN LET bad == {i \in 1..Len(items) :
                                fails(items[i], args[1], Append(path, IntV(i - 1)))}
                     i == CHOOSE i \in bad : \A j \in bad : i <= j
                 IN  IF bad = {} THEN [path |-> path, value |-> value]
                     ELSE FirstFailure(c, items[i], args[1], Append(path, IntV(i - 1)))
        ELSE IF /\ TyName(type_) \in {"Dict", "Mapping"} /\ Parameterized(type_)
                /\ builtin_isinstance(value, "Mapping")
            THEN LET itempath(i) == Append(path, KeyOf(items[i]))
                     badkey(i) == fails(KeyOf(items[i]), args[1], itempath(i))
                     bad == {i \in 1..Len(items) :
                                badkey(i) \/ fails(ValOf(items[i]), args[2], itempath(i))}
                     i == CHOOSE i \in bad : \A j \in bad : i <= j
                 IN  IF bad = {} THEN [path |-> path, value |-> value]
                     ELSE IF badkey(i)
                         THEN FirstFailure(c, KeyOf(items[i]), args[1], itempath(i))
                     ELSE FirstFailure(c, ValOf(items[i]), args[2], itempath(i))
        ELSE [path |-> path, value |-> value]

\* a convert call with a parameterized list or dict type on a value of the
\* container kind, one of whose elements does not convert
NestedFailure ==
    /\ pc = "returned" /\ call.op \in {"convert", "json_convert"}
    /\ TyName(call.type_) \in {"List", "Sequence", "Dict", "Mapping"}
    /\ Parameterized(call.type_)
    /\ FirstFailure(ConverterOf(call.op), call.value, call.type_, <<>>).path # <<>>

\* C26: when a parameterized list or dict conversion fails inside a nested
\* element, the conversion error that reaches the caller carries the path of
\* the offending element, the path of the enclosing container extended at
\* each level with the list index or the mapping key of the first element
\* whose conversion failed, and carries that element as the offending value;
\* no partially converted container is returned.
C26_ErrorPath ==
    NestedFailure =>
        LET f == FirstFailure(ConverterOf(call.op), call.value, call.type_, <<>>)
        IN  /\ result.tag = "err"
            /\ result.val = NoneV
            /\ result.err \in {"TypeConversionError", "JsonTypeError"} =>
                   (result.path = f.path /\ result.ev = f.value)

\* C27: decoding a record does not modify the object the caller passed:
\* after dataclass_from_json(cls, data, ignore_extra_keys) has returned or
\* raised, in either mode, with or without unrecognized keys, data holds the
\* keys and values it held before the call, in the same order.
C27_DataUntouched ==
    Returned("dataclass_from_json") => argument = call.value

\* C27: an object with two declared fields and an unrecognized key has been
\* decoded with ignore_extra_keys: the loop has popped both fields from its
\* copy, the record is returned and the caller's object still has three keys
C27_Witness ==
    /\ Returned("dataclass_from_json") /\ call.flag /\ Succeeded
    /\ Len(Recognized(call.type_.n, call.value.items)) = 2
    /\ Len(Unrecognized(call.type_.n, call.value.items)) = 1
    /\ Len(argument.items) = 3

====
